---- MODULE Spec2Model ----
(***************************************************************************)
(* Model of jobs/sync_locations.py: the LocationsCSVDataSource job.        *)
(*                                                                         *)
(* Python values are tagged so that a str and None can sit in the same     *)
(* set: Str(s) is the str s, None is Python's None.  A CSV file is a       *)
(* header (the field names) and a sequence of lines, each line being the   *)
(* sequence of its fields.  A dict is a function from its keys.            *)
(***************************************************************************)
EXTENDS Integers, Sequences, FiniteSets, TLC

VARIABLES source_file, store, pc, ran_before, records, state_records,
          city_records, site_records, source_data, log, error

vars == <<source_file, store, pc, ran_before, records, state_records,
          city_records, site_records, source_data, log, error>>

(* ---------------------------- bounds ----------------------------------- *)

MaxRows == 2

(* ------------------------- Python values -------------------------------- *)

Str(s) == <<"str", s>>

None == <<"NoneType">>

IsStr(v) == v[1] = "str"

\* str(v) as an f-string renders it
Format(v) == IF IsStr(v) THEN v[2] ELSE "None"

(* --------------------------- inputs ------------------------------------- *)

SiteNames == {"A-BR", "A-DC", "A-HQ", "A-br"}

\* (city, state) of a line: one city name under two states, two cities of
\* one state, a state code of the table and a state name that is no code
Places == {<<"Dallas", "TX">>, <<"Dallas", "Ohio">>, <<"Austin", "TX">>}

Headers == {<<"name", "city", "state">>, <<"name", "city">>}

\* lines that stop before the last column, the empty line among them
ShortLines == {<<>>, <<"A-BR">>, <<"A-DC", "Dallas">>, <<"BR", "Austin">>}

\* the lines a file with the given header may hold: one field per column,
\* or a short line
Lines(header) ==
    ShortLines
    \cup (IF Len(header) >= 3
          THEN {<<n, p[1], p[2]>> : n \in SiteNames, p \in Places}
          ELSE {})

SeqsUpTo(S, n) == UNION {[1..k -> S] : k \in 0..n}

SourceFiles ==
    UNION {{[header |-> h, lines |-> ls] : ls \in SeqsUpTo(Lines(h), MaxRows)} : h \in Headers}

(* ----------------------- module constants ------------------------------- *)

STATE_ABBREVIATION_TO_FULL_NAME_MAP ==
    ("AL" :> "Alabama") @@ ("KY" :> "Kentucky") @@ ("OH" :> "Ohio") @@
    ("AK" :> "Alaska") @@ ("LA" :> "Louisiana") @@ ("OK" :> "Oklahoma") @@
    ("AZ" :> "Arizona") @@ ("ME" :> "Maine") @@ ("OR" :> "Oregon") @@
    ("AR" :> "Arkansas") @@ ("MD" :> "Maryland") @@ ("PA" :> "Pennsylvania") @@
    ("AS" :> "American Samoa") @@ ("MA" :> "Massachusetts") @@ ("PR" :> "Puerto Rico") @@
    ("CA" :> "California") @@ ("MI" :> "Michigan") @@ ("RI" :> "Rhode Island") @@
    ("CO" :> "Colorado") @@ ("MN" :> "Minnesota") @@ ("SC" :> "South Carolina") @@
    ("CT" :> "Connecticut") @@ ("MS" :> "Mississippi") @@ ("SD" :> "South Dakota") @@
    ("DE" :> "Delaware") @@ ("MO" :> "Missouri") @@ ("TN" :> "Tennessee") @@
    ("DC" :> "District of Columbia") @@ ("MT" :> "Montana") @@ ("TX" :> "Texas") @@
    ("FL" :> "Florida") @@ ("NE" :> "Nebraska") @@ ("TT" :> "Trust Territories") @@
    ("GA" :> "Georgia") @@ ("NV" :> "Nevada") @@ ("UT" :> "Utah") @@
    ("GU" :> "Guam") @@ ("NH" :> "New Hampshire") @@ ("VT" :> "Vermont") @@
    ("HI" :> "Hawaii") @@ ("NJ" :> "New Jersey") @@ ("VA" :> "Virginia") @@
    ("ID" :> "Idaho") @@ ("NM" :> "New Mexico") @@ ("VI" :> "Virgin Islands") @@
    ("IL" :> "Illinois") @@ ("NY" :> "New York") @@ ("WA" :> "Washington") @@
    ("IN" :> "Indiana") @@ ("NC" :> "North Carolina") @@ ("WV" :> "West Virginia") @@
    ("IA" :> "Iowa") @@ ("ND" :> "North Dakota") @@ ("WI" :> "Wisconsin") @@
    ("KS" :> "Kansas") @@ ("MP" :> "Northern Mariana Islands") @@ ("WY" :> "Wyoming")

(* ------------------------- LocationModel -------------------------------- *)

\* Optional[str] = None: an attribute a record does not carry reads as None
LocationModel(r) ==
    [name |-> r["name"],
     location_type__name |-> r["location_type__name"],
     status__name |-> r["status__name"],
     parent__name |-> IF "parent__name" \in DOMAIN r THEN r["parent__name"] ELSE None,
     parent__location_type__name |->
         IF "parent__location_type__name" \in DOMAIN r
         THEN r["parent__location_type__name"] ELSE None,
     description |-> r["description"]]

\* the persisted Location table the job is given
Stores ==
    {{LocationModel([name |-> Str("Gotham"), location_type__name |-> Str("City"),
                     status__name |-> Str("Active"), parent__name |-> Str("New Jersey"),
                     parent__location_type__name |-> Str("State"),
                     description |-> Str("The city of 'Gotham'.")]),
      LocationModel([name |-> Str("TX"), location_type__name |-> Str("State"),
                     status__name |-> Str("Active"),
                     description |-> Str("The state of 'TX'.")])}}

(* --------------------------- get_csv_data ------------------------------- *)

\* csv.DictReader: one dict per non-empty line, keyed by the header's field
\* names; a line shorter than the header has its missing values set to None
DictRow(header, line) ==
    [k \in {header[i] : i \in 1..Len(header)} |->
        LET i == CHOOSE j \in 1..Len(header) : header[j] = k
        IN  IF i <= Len(line) THEN Str(line[i]) ELSE None]

RECURSIVE DictReader(_, _)
DictReader(header, lines) ==
    IF lines = <<>> THEN <<>>
    ELSE IF Head(lines) = <<>> THEN DictReader(header, Tail(lines))
    ELSE <<DictRow(header, Head(lines))>> \o DictReader(header, Tail(lines))

get_csv_data(file) == DictReader(file.header, file.lines)

(* ---------------------------- get_states -------------------------------- *)

\* the orders in which iterating a set may yield its elements
Orderings(S) ==
    {f \in [1..Cardinality(S) -> S] : \A i, j \in 1..Cardinality(S) : i # j => f[i] # f[j]}

StateRecord(state_name) ==
    [name |-> state_name,
     location_type__name |-> Str("State"),
     status__name |-> Str("Active"),
     description |-> Str("The state of '" \o Format(state_name) \o "'.")]

StateSet(recs) == {recs[i]["state"] : i \in 1..Len(recs)}

\* variant: a list in place of the set, one record per row
get_states_per_row(recs, order) ==
    [i \in 1..Len(recs) |-> StateRecord(recs[i]["state"])]

\* order: the iteration order of the set of states
get_states(recs, order) ==
    [i \in 1..Len(order) |-> StateRecord(order[i])]

(* ---------------------------- get_cities -------------------------------- *)

\* variant: parent__name taken from the wrong element of the pair
CityRecord_self_parent(city_name, state_name) ==
    [name |-> city_name,
     location_type__name |-> Str("City"),
     status__name |-> Str("Active"),
     parent__name |-> city_name,
     parent__location_type__name |-> Str("State"),
     description |-> Str("The city of '" \o Format(city_name) \o "'.")]

CityRecord(city_name, state_name) ==
    [name |-> city_name,
     location_type__name |-> Str("City"),
     status__name |-> Str("Active"),
     parent__name |-> state_name,
     parent__location_type__name |-> Str("State"),
     description |-> Str("The city of '" \o Format(city_name) \o "'.")]

CitySet(recs) == {<<recs[i]["city"], recs[i]["state"]>> : i \in 1..Len(recs)}

\* order: the iteration order of the set of (city, state) pairs
get_cities(recs, order) ==
    [i \in 1..Len(order) |-> CityRecord(order[i][1], order[i][2])]

(* ------------------------- get_location_sites --------------------------- *)

endswith(s, suffix) ==
    /\ Len(s) >= Len(suffix)
    /\ SubSeq(s, Len(s) - Len(suffix) + 1, Len(s)) = suffix

\* variant: the elif test dropped
SiteType_else_dc(site_name) ==
    IF endswith(site_name, "-BR") THEN "Branch" ELSE "Data Center"

\* the if / elif / else of the loop body; "" stands for the else branch
SiteType(site_name) ==
    IF endswith(site_name, "-BR") THEN "Branch"
    ELSE IF endswith(site_name, "-DC") THEN "Data Center"
    ELSE ""

SiteRecord(site_name, location_type__name, city_name) ==
    [name |-> site_name,
     location_type__name |-> Str(location_type__name),
     status__name |-> Str("Active"),
     parent__name |-> city_name,
     parent__location_type__name |-> Str("City"),
     description |-> Str("The " \o location_type__name \o " of '" \o Format(site_name) \o "'.")]

Warning(site_name) ==
    [level |-> "warning", msg |-> "'" \o Format(site_name) \o "' is not a Branch or Data Center"]

\* variant: break in place of continue
RECURSIVE SitesLoop_break(_, _, _)
SitesLoop_break(recs, i, acc) ==
    IF i > Len(recs) THEN acc
    ELSE LET site_name == recs[i]["name"]
             city_name == recs[i]["city"]
             t == SiteType(site_name[2])
         IN  IF t = ""
             THEN [acc EXCEPT !.warnings = Append(@, Warning(site_name))]
             ELSE SitesLoop_break(recs, i + 1,
                    [acc EXCEPT !.site_records = Append(@, SiteRecord(site_name, t, city_name))])

\* the for loop from row i on; acc holds site_records and the warnings logged
RECURSIVE SitesLoop(_, _, _)
SitesLoop(recs, i, acc) ==
    IF i > Len(recs) THEN acc
    ELSE LET site_name == recs[i]["name"]
             city_name == recs[i]["city"]
             t == SiteType(site_name[2])
         IN  IF t = ""
             THEN SitesLoop(recs, i + 1,
                    [acc EXCEPT !.warnings = Append(@, Warning(site_name))])
             ELSE SitesLoop(recs, i + 1,
                    [acc EXCEPT !.site_records = Append(@, SiteRecord(site_name, t, city_name))])

get_location_sites(recs) ==
    SitesLoop(recs, 1, [site_records |-> <<>>, warnings |-> <<>>])

(* --------------------------- get_source_data ---------------------------- *)

\* variant: the three lists unpacked in the opposite order
get_source_data_reversed(states, cities, sites) == sites \o cities \o states

get_source_data(states, cities, sites) == states \o cities \o sites

(* --------------------------------- run ---------------------------------- *)

\* the exception get_source_data raises on these records, "" if none:
\* get_states reads r["state"], get_cities r["city"] and r["state"],
\* get_location_sites r["name"], r["city"] and calls site_name.endswith
Raises(recs) ==
    IF \E i \in 1..Len(recs) : "state" \notin DOMAIN recs[i] THEN "KeyError: 'state'"
    ELSE IF \E i \in 1..Len(recs) : "city" \notin DOMAIN recs[i] THEN "KeyError: 'city'"
    ELSE LET bad == {i \in 1..Len(recs) :
                        "name" \notin DOMAIN recs[i] \/ ~IsStr(recs[i]["name"])}
         IN  IF bad = {} THEN ""
             ELSE LET i == CHOOSE j \in bad : \A k \in bad : j <= k
                  IN  IF "name" \notin DOMAIN recs[i] THEN "KeyError: 'name'"
                      ELSE "AttributeError"

Info(what) == [level |-> "info", msg |-> what]

\* variant: persisted records that are not desired are removed
RunStore_prune(st, data) ==
    {p \in st : \E i \in 1..Len(data) :
        /\ data[i]["name"] = p["name"]
        /\ data[i]["location_type__name"] = p["location_type__name"]}

\* what run does to the Location table: it makes no call on Location or
\* LocationType, the table is as it was
RunStore(st, data) == st

Init ==
    /\ source_file \in SourceFiles
    /\ store \in Stores
    /\ pc = "idle"
    /\ ran_before = FALSE
    /\ records = <<>>
    /\ state_records = <<>>
    /\ city_records = <<>>
    /\ site_records = <<>>
    /\ source_data = <<>>
    /\ log = <<>>
    /\ error = ""

\* the job is started on source_file and run reaches its last line
Run ==
    /\ pc = "idle"
    /\ LET recs == get_csv_data(source_file)
       IN  /\ Raises(recs) = ""
           /\ \E so \in Orderings(StateSet(recs)), co \in Orderings(CitySet(recs)) :
                LET states == get_states(recs, so)
                    cities == get_cities(recs, co)
                    sites  == get_location_sites(recs)
                    data   == get_source_data(states, cities, sites.site_records)
                IN  /\ records' = recs
                    /\ state_records' = states
                    /\ city_records' = cities
                    /\ site_records' = sites.site_records
                    /\ source_data' = data
                    /\ log' = <<Info("repr(args)"), Info("repr(kwargs)"), Info("repr(records)")>>
                              \o sites.warnings \o <<Info("repr(source_data)")>>
                    /\ store' = RunStore(store, data)
    /\ error' = ""
    /\ pc' = "done"
    /\ UNCHANGED <<source_file, ran_before>>

\* get_source_data raises: run ends with the exception, nothing is returned
RunRaises ==
    /\ pc = "idle"
    /\ LET recs == get_csv_data(source_file)
       IN  /\ Raises(recs) # ""
           /\ records' = recs
           /\ error' = Raises(recs)
    /\ state_records' = <<>>
    /\ city_records' = <<>>
    /\ site_records' = <<>>
    /\ source_data' = <<>>
    /\ log' = <<Info("repr(args)"), Info("repr(kwargs)"), Info("repr(records)")>>
    /\ pc' = "aborted"
    /\ UNCHANGED <<source_file, store, ran_before>>

\* run is over, its locals and its log are gone; the job may be started
\* again on the same file
Return ==
    /\ pc \in {"done", "aborted"}
    /\ pc' = "idle"
    /\ ran_before' = TRUE
    /\ records' = <<>>
    /\ state_records' = <<>>
    /\ city_records' = <<>>
    /\ site_records' = <<>>
    /\ source_data' = <<>>
    /\ log' = <<>>
    /\ error' = ""
    /\ UNCHANGED <<source_file, store>>

Next == Run \/ RunRaises \/ Return

Spec == Init /\ [][Next]_vars

(* ------------------------------ properties ------------------------------ *)

Done == pc = "done"

Data(i) == LocationModel(source_data[i])

IsState(r) == r["location_type__name"] = Str("State")

IsCity(r) == r["location_type__name"] = Str("City")

IsSite(r) == r["location_type__name"] \in {Str("Branch"), Str("Data Center")}

Rank(r) == IF IsState(r) THEN 1 ELSE IF IsCity(r) THEN 2 ELSE 3

\* s is some prefix followed by the three characters of suffix
EndsIn(s, suffix) == \E k \in 0..Len(s) : SubSeq(s, 1, k) \o suffix = s

\* part stands in s from position a on
ContainsAt(s, a, part) == SubSeq(s, a, a + Len(part) - 1) = part

\* C1: in the list get_source_data returns, every City record comes after the
\* State record that is its parent, every Site record after the City record
\* that is its parent, and the list is all States, then all Cities, then all
\* Sites.
C1_DependencyOrder ==
    Done =>
        \A i, j \in 1..Len(source_data) :
            /\ (IsCity(source_data[i]) /\ IsState(source_data[j])
                /\ source_data[j]["name"] = source_data[i]["parent__name"]) => j < i
            /\ (IsSite(source_data[i]) /\ IsCity(source_data[j])
                /\ source_data[j]["name"] = source_data[i]["parent__name"]) => j < i
            /\ i < j => Rank(source_data[i]) <= Rank(source_data[j])

C1_Witness ==
    /\ Done
    /\ \E i, j, k \in 1..Len(source_data) :
        /\ IsState(source_data[i]) /\ IsCity(source_data[j]) /\ IsSite(source_data[k])
        /\ source_data[j]["parent__name"] = source_data[i]["name"]
        /\ source_data[k]["parent__name"] = source_data[j]["name"]

\* C2: the desired set is closed under parent references: a Site record's
\* parent is the (name, City) of a City record of the set, a City record's
\* parent is the (name, State) of a State record of the set, and a State
\* record carries no parent.
C2_ParentClosure ==
    Done =>
        \A i \in 1..Len(source_data) :
            LET r == source_data[i]
            IN  /\ IsSite(r) =>
                    /\ r["parent__location_type__name"] = Str("City")
                    /\ \E j \in 1..Len(source_data) :
                        IsCity(source_data[j]) /\ source_data[j]["name"] = r["parent__name"]
                /\ IsCity(r) =>
                    /\ r["parent__location_type__name"] = Str("State")
                    /\ \E j \in 1..Len(source_data) :
                        IsState(source_data[j]) /\ source_data[j]["name"] = r["parent__name"]
                /\ IsState(r) =>
                    /\ "parent__name" \notin DOMAIN r
                    /\ "parent__location_type__name" \notin DOMAIN r

C2_Witness ==
    /\ Done
    /\ \E i, j \in 1..Len(source_data) :
        /\ IsSite(source_data[i]) /\ IsCity(source_data[j])
        /\ source_data[i]["parent__name"] = source_data[j]["name"]
        /\ IsStr(source_data[j]["parent__name"])

\* C3: no two records of the desired set share the pair (name, location_type).
C3_UniqueIdentity ==
    Done =>
        \A i, j \in 1..Len(source_data) :
            i # j => \/ source_data[i]["name"] # source_data[j]["name"]
                     \/ source_data[i]["location_type__name"] # source_data[j]["location_type__name"]

\* C4: get_states emits exactly one State record per distinct state value of
\* the rows, get_cities exactly one City record per distinct (city, state)
\* pair, its parent being (that state, State); no record stands for a value
\* or pair that is not in the rows.
C4_OnePerDistinct ==
    Done =>
        /\ \A i \in 1..Len(records) :
            /\ Cardinality({k \in 1..Len(state_records) :
                    /\ IsState(state_records[k])
                    /\ state_records[k]["name"] = records[i]["state"]}) = 1
            /\ Cardinality({k \in 1..Len(city_records) :
                    /\ IsCity(city_records[k])
                    /\ city_records[k]["name"] = records[i]["city"]
                    /\ city_records[k]["parent__name"] = records[i]["state"]
                    /\ city_records[k]["parent__location_type__name"] = Str("State")}) = 1
        /\ \A k \in 1..Len(state_records) :
            \E i \in 1..Len(records) : state_records[k]["name"] = records[i]["state"]
        /\ \A k \in 1..Len(city_records) :
            \E i \in 1..Len(records) :
                /\ city_records[k]["name"] = records[i]["city"]
                /\ city_records[k]["parent__name"] = records[i]["state"]

C4_Witness ==
    /\ Done
    /\ \E i, j \in 1..Len(records) :
        /\ i # j
        /\ records[i]["state"] = records[j]["state"]
        /\ records[i]["city"] = records[j]["city"]
        /\ IsStr(records[i]["state"])
    /\ Len(state_records) = 1
    /\ Len(city_records) = 1

Normalized(s) ==
    IF s \in DOMAIN STATE_ABBREVIATION_TO_FULL_NAME_MAP
    THEN STATE_ABBREVIATION_TO_FULL_NAME_MAP[s] ELSE s

\* C5: state values are normalized before records are derived: a row whose
\* state is a two-letter code of the table yields a State record named with
\* the full name and a City record whose parent is that full name; any other
\* state value is used unchanged.
C5_StateNormalized ==
    Done =>
        \A i \in 1..Len(records) :
            IsStr(records[i]["state"]) =>
                LET full == Str(Normalized(records[i]["state"][2]))
                IN  /\ \E k \in 1..Len(state_records) : state_records[k]["name"] = full
                    /\ \E k \in 1..Len(city_records) :
                        /\ city_records[k]["name"] = records[i]["city"]
                        /\ city_records[k]["parent__name"] = full

\* C6: a Site record is a Branch exactly when its row's name ends with "-BR"
\* and a Data Center exactly when it ends with "-DC" (case-sensitive); a row
\* whose name ends with neither has no Site record, and no Site record has
\* another location_type.
C6_SuffixClassification ==
    Done =>
        /\ \A k \in 1..Len(site_records) :
            LET r == site_records[k]
            IN  /\ r["location_type__name"] \in {Str("Branch"), Str("Data Center")}
                /\ r["location_type__name"] = Str("Branch") <=> EndsIn(r["name"][2], "-BR")
                /\ r["location_type__name"] = Str("Data Center") <=> EndsIn(r["name"][2], "-DC")
                /\ \E i \in 1..Len(records) : records[i]["name"] = r["name"]
        /\ \A i \in 1..Len(records) :
            LET n == records[i]["name"]
            IN  IF EndsIn(n[2], "-BR") \/ EndsIn(n[2], "-DC")
                THEN \E k \in 1..Len(site_records) : site_records[k]["name"] = n
                ELSE \A k \in 1..Len(site_records) : site_records[k]["name"] # n

C6_Witness ==
    /\ Done
    /\ \E i \in 1..Len(records) : records[i]["name"] \in {Str("A-br"), Str("A-HQ"), Str("BR")}
    /\ \E k \in 1..Len(site_records) : site_records[k]["location_type__name"] = Str("Data Center")

\* would the store hold r as it is desired: same identity, same parent, Active
Converged(r) ==
    \E p \in store :
        /\ p["name"] = r["name"]
        /\ p["location_type__name"] = r["location_type__name"]
        /\ p["parent__name"] = r["parent__name"]
        /\ p["parent__location_type__name"] = r["parent__location_type__name"]
        /\ p["status__name"] = r["status__name"]

\* C7: once the pipeline has run twice on the same CSV, every desired record
\* is a NO-OP: the store holds it with the desired parent and status, so that
\* nothing is left to create or update.
C7_SecondRunAllNoOp ==
    (Done /\ ran_before) => \A i \in 1..Len(source_data) : Converged(Data(i))

Malformed(r) ==
    \E k \in {"name", "city", "state"} : k \notin DOMAIN r \/ r[k] = None

\* C8: if a row is missing its name, city or state, the run aborts with an
\* error and returns no desired record at all.
C8_MalformedRowFailsFast ==
    (pc # "idle" /\ \E i \in 1..Len(records) : Malformed(records[i]))
        => (pc = "aborted" /\ error # "" /\ source_data = <<>>)

\* C9: no step of a run deletes or changes a persisted record: every record
\* of the store before the step is in the store after it.
C9_NeverDeletes == [][\A p \in store : p \in store']_vars

C9_Witness ==
    /\ Done
    /\ source_data # <<>>
    /\ \E p \in store :
        \A i \in 1..Len(source_data) :
            \/ source_data[i]["name"] # p["name"]
            \/ source_data[i]["location_type__name"] # p["location_type__name"]

Classified(i) ==
    EndsIn(records[i]["name"][2], "-BR") \/ EndsIn(records[i]["name"][2], "-DC")

ClassifiedRows == {i \in 1..Len(records) : Classified(i)}

Warnings == SelectSeq(log, LAMBDA e : e.level = "warning")

\* C10: an unclassifiable row never stops get_location_sites: every row
\* ending in "-BR" or "-DC" yields one Site record, in row order, whatever
\* rows surround it; every other row yields one warning holding its name
\* (after the opening quote) and no Site record; Site records plus warnings
\* are as many as the rows.
C10_SkipAndContinue ==
    Done =>
        LET rows == ClassifiedRows
            warnings == Warnings
            \* the number of rows up to row i that end in "-BR" or "-DC"
            UpTo(i) == Cardinality({j \in rows : j <= i})
        IN  /\ Len(site_records) = Cardinality(rows)
            /\ Len(site_records) + Len(warnings) = Len(records)
            /\ \A i \in 1..Len(records) :
                IF i \in rows
                THEN /\ site_records[UpTo(i)]["name"] = records[i]["name"]
                     /\ site_records[UpTo(i)]["parent__name"] = records[i]["city"]
                ELSE ContainsAt(warnings[i - UpTo(i)].msg, 2, records[i]["name"][2])

C10_Witness ==
    /\ Done
    /\ Len(records) >= 2
    /\ 1 \notin ClassifiedRows
    /\ 2 \in ClassifiedRows
    /\ Len(site_records) = 1
    /\ Len(Warnings) = 1

====
